---- MODULE Spec2Model ----
(***************************************************************************)
(* The client-side session layer (authProvider.ts), the resource gateway   *)
(* (dataProvider.ts) and the save of the user and driver forms             *)
(* (pages/users.tsx, pages/drivers.tsx) of the Formula One dashboard, as a *)
(* state machine.                                                          *)
(*                                                                         *)
(* JavaScript values are modelled as strings, `undefined` as the marker    *)
(* UNDEF; a JavaScript object is a function from the keys it has to their  *)
(* values.  localStorage holds text: JSON.stringify drops the undefined    *)
(* fields, JSON.parse throws on text that is not JSON.                     *)
(***************************************************************************)
EXTENDS Integers, Sequences, FiniteSets, TLC

VARIABLES
    auth,            \* localStorage.getItem('auth'): NoItem or a stored text
    now,             \* the wall clock read by Date.now() / new Date()
    logins,          \* login calls awaiting the remote endpoint: attempt -> how many
    request,         \* the Gateway call awaiting the REST API, or NoRequest
    last,            \* the call that completed last: its arguments and its result
    lastTransition,  \* history: the last of {login success, logout, checkError 401/403}
    records,         \* the REST API's tables: resource -> the ids it holds
    permissions,     \* what usePermissions() holds: UNDEF until loaded, then the role
    widgets,         \* the dashboard widgets: their React state and their fetches in flight
    race             \* the race detail view: its React state and its requests in flight

vars == <<auth, now, logins, request, last, lastTransition, records, permissions,
          widgets, race>>

(***************************************************************************)
(* Bounds of the model.                                                    *)
(***************************************************************************)
MaxInFlight == 2     \* login calls in flight at once
MaxClock == 1        \* the clock ticks from 0 to MaxClock

(***************************************************************************)
(* JavaScript values and objects.                                          *)
(***************************************************************************)
UNDEF == "<undefined>"

EmptyObj == [k \in {} |-> UNDEF]

\* ToBoolean(v) for the values of the model: undefined and '' are falsy.
Truthy(v) == v \notin {UNDEF, ""}

\* obj.k
Get(obj, k) == IF k \in DOMAIN obj THEN obj[k] ELSE UNDEF

\* a || b
OrElse(a, b) == IF Truthy(a) THEN a ELSE b

(***************************************************************************)
(* JSON text.  A text either is the JSON of an object or is not JSON.      *)
(***************************************************************************)
JSONStringify(obj) ==
    [kind |-> "json",
     obj  |-> [k \in {j \in DOMAIN obj : obj[j] # UNDEF} |-> obj[k]]]

NotJSON == [kind |-> "garbage", obj |-> EmptyObj]

JSONParseThrows(text) == text.kind # "json"

JSONParse(text) == text.obj

(***************************************************************************)
(* localStorage, key 'auth'.                                               *)
(***************************************************************************)
NoItem == [kind |-> "null", obj |-> EmptyObj]

\* if (auth) on the result of getItem
HasItem(item) == item.kind # "null"

\* The record the earlier static provider wrote, which may still be stored.
LegacyAuthData == [username |-> "admin", token |-> "fake-jwt-token", role |-> "admin"]

InitialStorage == {NoItem, NotJSON, JSONStringify(LegacyAuthData)}

(***************************************************************************)
(* The clock.                                                              *)
(***************************************************************************)
DateNow(t) == ToString(t)

ToISOString(t) == "T" \o ToString(t)

(***************************************************************************)
(* Results of calls: a settled promise.                                    *)
(***************************************************************************)
NoStatus == [has |-> FALSE, code |-> 0]

HttpStatus(c) == [has |-> TRUE, code |-> c]

\* An error object: its message, its status property (NoStatus: it has none)
\* and the detail of its body property.
ErrorObj(m, status, detail) == [message |-> m, status |-> status, detail |-> detail]

Resolve(v) == [outcome |-> "resolve", value |-> v]

RejectWith(error) == [outcome |-> "reject", value |-> error]

\* Promise.reject(new Error(m))
Reject(m) == RejectWith(ErrorObj(m, NoStatus, UNDEF))

(***************************************************************************)
(* Inputs: the credential attempts submitted and the answers of the remote *)
(* login endpoint.                                                         *)
(***************************************************************************)
CredentialAttempts ==
    { [username |-> "admin", password |-> "admin"],
      [username |-> "user",  password |-> "user123"],
      [username |-> "test",  password |-> "test"],
      [username |-> "admin", password |-> "user123"] }

\* The user objects and tokens of a well-formed success body.
RemoteUsers ==
    { [username |-> "alice", full_name |-> "Remote Name", email |-> "alice@example.com",
       role |-> "viewer"],
      [username |-> "admin", full_name |-> "Remote Admin", email |-> "admin@example.com",
       role |-> "admin"] }

RemoteToken == "jwt-remote"

RemoteDetails == {"Incorrect username or password", "", UNDEF}

NoBody == [json |-> FALSE, hasUser |-> FALSE, user |-> EmptyObj,
           access_token |-> UNDEF, detail |-> UNDEF]

\* A JSON body with user object u (UNDEF: a field it does not have) and token t.
SuccessBody(u, t) ==
    [json |-> TRUE, hasUser |-> TRUE, user |-> JSONParse(JSONStringify(u)),
     access_token |-> t, detail |-> UNDEF]

\* The answers with status 2xx: the well-formed bodies, the bodies that lack
\* one field or carry an empty token, JSON without a user object, and text
\* that is not JSON.
SuccessBodies ==
    { SuccessBody(u, RemoteToken) : u \in RemoteUsers }
    \cup { SuccessBody([u EXCEPT ![f] = UNDEF], RemoteToken) :
             u \in RemoteUsers, f \in {"full_name", "role"} }
    \cup { SuccessBody(u, t) : u \in RemoteUsers, t \in {"", UNDEF} }
    \cup { [NoBody EXCEPT !.json = TRUE] }
    \cup { NoBody }

ErrorBodies ==
    { [NoBody EXCEPT !.json = TRUE, !.detail = d] : d \in RemoteDetails }
    \cup { NoBody }

\* No answer: fetch rejects with an error whose message is `failure`.
NoAnswer(failure) == [reachable |-> FALSE, ok |-> FALSE, body |-> NoBody, failure |-> failure]

Unreachable == NoAnswer("Failed to fetch")

\* An answer: response.ok and the body response.json() reads.
Answer(ok, body) == [reachable |-> TRUE, ok |-> ok, body |-> body, failure |-> ""]

Responses ==
    { Unreachable, NoAnswer("") }
    \cup { Answer(TRUE, b) : b \in SuccessBodies }
    \cup { Answer(FALSE, b) : b \in ErrorBodies }

\* The statuses of the errors handed to checkError.
ErrorStatuses == { NoStatus } \cup { HttpStatus(c) : c \in {400, 401, 403, 404, 500} }

(***************************************************************************)
(* The record of the call that completed last.                             *)
(***************************************************************************)
Call(op, result, args) ==
    [op |-> op, outcome |-> result.outcome, value |-> result.value, args |-> args]

NoArgs == [k \in {} |-> UNDEF]

NoCall == Call("none", Resolve(EmptyObj), NoArgs)

(***************************************************************************)
(* authProvider.login                                                      *)
(***************************************************************************)
Threw(m) == [threw |-> TRUE, message |-> m, authData |-> EmptyObj]

\* authData of the remote success path.
RemoteAuthData(data, t) ==
    [ username  |-> Get(data.user, "username"),
      fullName  |-> Get(data.user, "full_name"),
      email     |-> Get(data.user, "email"),
      role      |-> Get(data.user, "role"),
      token     |-> data.access_token,
      loginTime |-> ToISOString(t) ]

\* The try block: what it stores, or the error it throws into the catch.
RemoteAttempt(resp, t) ==
    IF ~resp.reachable THEN Threw(resp.failure)
    ELSE IF resp.ok THEN
        IF ~resp.body.json THEN Threw("Unexpected token in JSON")
        ELSE IF ~resp.body.hasUser
            THEN Threw("Cannot read properties of undefined")
            ELSE [threw |-> FALSE, message |-> "",
                  authData |-> RemoteAuthData(resp.body, t)]
    ELSE IF ~resp.body.json THEN Threw("Unexpected token in JSON")
         ELSE Threw(OrElse(resp.body.detail, "Login failed"))

StaticCredentials ==
    << [username |-> "admin", password |-> "admin",   role |-> "admin",  fullName |-> "Administrator"],
       [username |-> "user",  password |-> "user123", role |-> "user",   fullName |-> "Standard User"],
       [username |-> "test",  password |-> "test",    role |-> "viewer", fullName |-> "Test User"] >>

\* Mutant: the allow-list is matched on the username alone.
StaticUserMatchesUsernameOnly(cred, username, password) ==
    cred.username = username

StaticUserMatches(cred, username, password) ==
    cred.username = username /\ cred.password = password

\* staticCredentials.find(...): the indexes that match; find takes the first.
StaticMatches(username, password) ==
    { i \in DOMAIN StaticCredentials :
        StaticUserMatches(StaticCredentials[i], username, password) }

StaticFind(username, password) ==
    StaticCredentials[CHOOSE i \in StaticMatches(username, password) :
                        \A j \in StaticMatches(username, password) : i <= j]

\* Mutant: the fallback stores the role 'admin' for every entry.
StaticAuthDataAlwaysAdmin(staticUser, t) ==
    [ username  |-> staticUser.username,
      fullName  |-> staticUser.fullName,
      role      |-> "admin",
      token     |-> "static-jwt-token-" \o DateNow(t),
      loginTime |-> ToISOString(t) ]

\* Mutant: the fallback stores the matched entry whole, password included.
StaticAuthDataWithPassword(staticUser, t) ==
    [ username  |-> staticUser.username,
      password  |-> staticUser.password,
      fullName  |-> staticUser.fullName,
      role      |-> staticUser.role,
      token     |-> "static-jwt-token-" \o DateNow(t),
      loginTime |-> ToISOString(t) ]

\* authData of the fallback path.
StaticAuthData(staticUser, t) ==
    [ username  |-> staticUser.username,
      fullName  |-> staticUser.fullName,
      role      |-> staticUser.role,
      token     |-> "static-jwt-token-" \o DateNow(t),
      loginTime |-> ToISOString(t) ]

\* Mutant: the final rejection always carries the generic message.
FinalErrorMessageGeneric(apiError) == "Invalid username or password"

\* The message of the final rejection.
FinalErrorMessage(apiError) == OrElse(apiError.message, "Invalid username or password")

\* Mutant: the allow-list is consulted before the remote answer is used.
LoginResultStaticFirst(attempt, resp, t) ==
    IF StaticMatches(attempt.username, attempt.password) # {}
    THEN [result |-> Resolve(EmptyObj), writes |-> TRUE, path |-> "static",
          item |-> JSONStringify(
                     StaticAuthData(StaticFind(attempt.username, attempt.password), t))]
    ELSE IF ~RemoteAttempt(resp, t).threw
    THEN [result |-> Resolve(EmptyObj), writes |-> TRUE, path |-> "remote",
          item |-> JSONStringify(RemoteAttempt(resp, t).authData)]
    ELSE [result |-> Reject(OrElse(RemoteAttempt(resp, t).message,
                                   "Invalid username or password")),
          writes |-> FALSE, path |-> "none", item |-> NoItem]

\* Mutant: login updates the stored record field by field and keeps the
\* fields of the earlier record that it has no value for.
LoginResultMerging(attempt, resp, t) ==
    LET try == RemoteAttempt(resp, t)
        MergedInto(item, authData) ==
            IF item.kind # "json" THEN authData
            ELSE [k \in DOMAIN authData \cup DOMAIN item.obj |->
                    IF Get(authData, k) # UNDEF THEN authData[k] ELSE Get(item.obj, k)]
    IN
    IF ~try.threw
    THEN [result |-> Resolve(EmptyObj), writes |-> TRUE, path |-> "remote",
          item |-> JSONStringify(MergedInto(auth, try.authData))]
    ELSE IF StaticMatches(attempt.username, attempt.password) # {}
    THEN [result |-> Resolve(EmptyObj), writes |-> TRUE, path |-> "static",
          item |-> JSONStringify(MergedInto(auth,
                     StaticAuthData(StaticFind(attempt.username, attempt.password), t)))]
    ELSE [result |-> Reject(FinalErrorMessage(try)), writes |-> FALSE, path |-> "none",
          item |-> NoItem]

\* The whole of login after the remote endpoint answered `resp` at time t:
\* the settled promise, whether it wrote the 'auth' item, and the text written.
LoginResult(attempt, resp, t) ==
    LET try == RemoteAttempt(resp, t) IN
    IF ~try.threw
    THEN [result |-> Resolve(EmptyObj), writes |-> TRUE, path |-> "remote",
          item |-> JSONStringify(try.authData)]
    ELSE IF StaticMatches(attempt.username, attempt.password) # {}
    THEN [result |-> Resolve(EmptyObj), writes |-> TRUE, path |-> "static",
          item |-> JSONStringify(
                     StaticAuthData(StaticFind(attempt.username, attempt.password), t))]
    ELSE [result |-> Reject(FinalErrorMessage(try)), writes |-> FALSE, path |-> "none",
          item |-> NoItem]

RECURSIVE SumOver(_, _)
SumOver(f, S) ==
    IF S = {} THEN 0
    ELSE LET x == CHOOSE y \in S : TRUE IN f[x] + SumOver(f, S \ {x})

InFlight == SumOver(logins, CredentialAttempts)

\* login is called: the request to /auth/login is sent and awaited.
LoginStart(attempt) ==
    /\ InFlight < MaxInFlight
    /\ logins' = [logins EXCEPT ![attempt] = @ + 1]
    /\ UNCHANGED <<auth, now, last, lastTransition, request, records, permissions, widgets, race>>

\* Mutant: a login that is rejected clears the stored session.
LoginCompleteClearingOnReject(attempt, resp) ==
    /\ logins[attempt] > 0
    /\ \E r \in {LoginResult(attempt, resp, now)} :
        /\ auth' = IF r.writes THEN r.item ELSE NoItem
        /\ last' = Call("login", r.result, [cred |-> attempt, resp |-> resp])
        /\ lastTransition' = IF r.writes THEN "login" ELSE lastTransition
    /\ logins' = [logins EXCEPT ![attempt] = @ - 1]
    /\ UNCHANGED <<now, request, records, permissions, widgets, race>>

\* The awaited answer arrives and login runs to its end.  fetch and
\* response.json() are awaited one after the other; login touches no shared
\* state between the two, so they are one step.
LoginComplete(attempt, resp) ==
    /\ logins[attempt] > 0
    /\ \E r \in {LoginResult(attempt, resp, now)} :
        /\ auth' = IF r.writes THEN r.item ELSE auth
        /\ last' = Call("login", r.result, [cred |-> attempt, resp |-> resp])
        /\ lastTransition' = IF r.writes THEN "login" ELSE lastTransition
    /\ logins' = [logins EXCEPT ![attempt] = @ - 1]
    /\ UNCHANGED <<now, request, records, permissions, widgets, race>>

(***************************************************************************)
(* authProvider.logout                                                     *)
(***************************************************************************)
\* Mutant: logout removes another key and leaves 'auth' stored.
\* The call record of logout notes the logins in flight when it ran.
LogoutWrongKey ==
    /\ auth' = auth
    /\ last' = Call("logout", Resolve(EmptyObj), [inFlight |-> logins])
    /\ lastTransition' = "logout"
    /\ UNCHANGED <<now, logins, request, records, permissions, widgets, race>>

Logout ==
    /\ auth' = NoItem
    /\ last' = Call("logout", Resolve(EmptyObj), [inFlight |-> logins])
    /\ lastTransition' = "logout"
    /\ UNCHANGED <<now, logins, request, records, permissions, widgets, race>>

(***************************************************************************)
(* authProvider.checkError                                                 *)
(***************************************************************************)
\* Mutant: only 401 counts as an authentication error.
IsAuthErrorOnly401(status) == status.has /\ status.code = 401

IsAuthError(status) == status.has /\ (status.code = 401 \/ status.code = 403)

CheckErrorResult(status) ==
    IF IsAuthError(status) THEN Reject("Authentication required") ELSE Resolve(EmptyObj)

\* checkError(error): `cause` is the Gateway call that raised the error, or
\* NoArgs when the error has another origin.
CheckError(status, cause) ==
    /\ auth' = IF IsAuthError(status) THEN NoItem ELSE auth
    /\ last' = Call("checkError", CheckErrorResult(status),
                    [status |-> status, cause |-> cause])
    /\ lastTransition' = IF IsAuthError(status) THEN "checkError" ELSE lastTransition
    /\ UNCHANGED <<now, logins, request, records, permissions, widgets, race>>

(***************************************************************************)
(* authProvider.checkAuth                                                  *)
(***************************************************************************)
\* The settled promise of checkAuth on the stored item.
CheckAuthResult(item) ==
    IF HasItem(item) /\ ~JSONParseThrows(item) /\ Truthy(Get(JSONParse(item), "token"))
    THEN Resolve(EmptyObj)
    ELSE Reject("Not authenticated")

\* checkAuth removes the item in its catch block only.
CheckAuthRemoves(item) == HasItem(item) /\ JSONParseThrows(item)

CheckAuth ==
    /\ auth' = IF CheckAuthRemoves(auth) THEN NoItem ELSE auth
    /\ last' = Call("checkAuth", CheckAuthResult(auth), NoArgs)
    /\ UNCHANGED <<now, logins, lastTransition, request, records, permissions, widgets, race>>

(***************************************************************************)
(* authProvider.getPermissions, authProvider.getIdentity                   *)
(***************************************************************************)
GetPermissionsResult(item) ==
    IF HasItem(item) /\ ~JSONParseThrows(item)
    THEN Resolve([role |-> Get(JSONParse(item), "role")])
    ELSE Reject("No permissions available")

\* Mutant: getPermissions removing the item it cannot parse, as checkAuth does.
GetPermissionsClearsUnparseable ==
    /\ auth' = IF HasItem(auth) /\ JSONParseThrows(auth) THEN NoItem ELSE auth
    /\ last' = Call("getPermissions", GetPermissionsResult(auth), NoArgs)
    /\ UNCHANGED <<now, logins, lastTransition, request, records, permissions, widgets, race>>

GetPermissions ==
    /\ last' = Call("getPermissions", GetPermissionsResult(auth), NoArgs)
    /\ UNCHANGED <<auth, now, logins, lastTransition, request, records, permissions, widgets, race>>

\* Mutant: getIdentity without the username standing in for a missing fullName.
GetIdentityResultNoFallback(item) ==
    IF HasItem(item) /\ ~JSONParseThrows(item)
    THEN LET user == JSONParse(item) IN
         Resolve([id |-> Get(user, "username"), fullName |-> Get(user, "fullName")])
    ELSE Reject("No user identity available")

GetIdentityResult(item) ==
    IF HasItem(item) /\ ~JSONParseThrows(item)
    THEN LET user == JSONParse(item) IN
         Resolve([id |-> Get(user, "username"),
                  fullName |-> OrElse(Get(user, "fullName"), Get(user, "username"))])
    ELSE Reject("No user identity available")

GetIdentity ==
    /\ last' = Call("getIdentity", GetIdentityResult(auth), NoArgs)
    /\ UNCHANGED <<auth, now, logins, lastTransition, request, records, permissions, widgets, race>>

(***************************************************************************)
(* dataProvider: httpClient and the five overridden operations.            *)
(***************************************************************************)
GatewayOps == {"getList", "getOne", "create", "update", "delete"}

Resources == {"users", "drivers"}

\* Mutant: httpClient reading the token off a key of its own, which login never writes.
AuthorizationFromTokenKey(item) == UNDEF

\* The Authorization header httpClient sets, UNDEF when it sets none.
Authorization(item) ==
    IF HasItem(item) /\ ~JSONParseThrows(item) /\ Truthy(Get(JSONParse(item), "token"))
    THEN "Bearer " \o Get(JSONParse(item), "token")
    ELSE UNDEF

\* The record identifiers of the model, and the order a list answer has them in.
Ids == {"1", "2"}

IdOrder == <<"1", "2">>

\* The tables of the REST API when the dashboard starts.
InitialRecords == [r \in Resources |-> Ids]

\* params.id of the operations that address one record.
OpIds(op) == IF op \in {"getList", "create"} THEN {UNDEF} ELSE Ids

\* A request in flight: the operation it serves, the header httpClient built
\* and the number of times the operation handed it to fetchJson.
NoRequest ==
    [op |-> "none", resource |-> "", id |-> UNDEF, authorization |-> UNDEF, sent |-> 0]

\* The answers of the REST API: no answer, or a status with the detail of its
\* error body, or a 2xx status with its records and, when it carries the
\* Content-Range header, the total that header states.
ApiUnreachable ==
    [reachable |-> FALSE, code |-> 0, detail |-> UNDEF,
     data |-> <<>>, hasCount |-> FALSE, count |-> 0]

ApiError(c, detail) ==
    [reachable |-> TRUE, code |-> c, detail |-> detail,
     data |-> <<>>, hasCount |-> FALSE, count |-> 0]

ApiSuccess(data, hasCount) ==
    [reachable |-> TRUE, code |-> 200, detail |-> UNDEF,
     data |-> data, hasCount |-> hasCount, count |-> IF hasCount THEN Len(data) ELSE 0]

ApiResponses ==
    { ApiUnreachable }
    \cup { ApiError(c, UNDEF) : c \in {400, 401, 403, 404, 409, 422, 500, 503} }
    \cup { ApiError(400, "Cannot delete your own account") }
    \cup { ApiSuccess(<<>>, TRUE), ApiSuccess(<<"1">>, TRUE), ApiSuccess(<<"1">>, FALSE) }

\* fetchUtils.fetchJson under baseDataProvider: it resolves on a 2xx status and
\* rejects with an HttpError carrying the status and the body otherwise; a
\* request that gets no answer rejects with fetch's TypeError.
\* On a 2xx answer the operation of simpleRestProvider resolves with the
\* records; getList reads the total off the Content-Range header and throws
\* when the answer has none.
BaseResult(op, resp) ==
    IF ~resp.reachable THEN Reject("Failed to fetch")
    ELSE IF resp.code >= 200 /\ resp.code < 300 THEN
        IF op # "getList" THEN Resolve([data |-> resp.data])
        ELSE IF resp.hasCount THEN Resolve([data |-> resp.data, total |-> resp.count])
        ELSE Reject("The Content-Range header is missing in the HTTP Response.")
    ELSE RejectWith(ErrorObj("HTTP " \o ToString(resp.code), HttpStatus(resp.code),
                             resp.detail))

HasCode(error, c) == error.status.has /\ error.status.code = c

\* error.body?.detail?.includes('Cannot delete')
IncludesCannotDelete(detail) == detail \in {"Cannot delete your own account"}

\* Mutant: create taking every 5xx status for a server error.
CreateErrorAny5xx(resource, error) ==
    IF resource = "users" /\ HasCode(error, 403)
        THEN ErrorObj("Administrator access required to create users. Please login as an admin.", NoStatus, UNDEF)
    ELSE IF resource = "users" /\ HasCode(error, 401)
        THEN ErrorObj("Authentication required. Please login to create users.", NoStatus, UNDEF)
    ELSE IF resource = "users" /\ HasCode(error, 409)
        THEN ErrorObj("Username or email already exists. Please choose different credentials.", NoStatus, UNDEF)
    ELSE IF resource = "users" /\ HasCode(error, 422)
        THEN ErrorObj("Validation error: Please check all required fields are filled correctly.", NoStatus, UNDEF)
    ELSE IF resource = "users" /\ error.status.has /\ error.status.code >= 500
        THEN ErrorObj("Server error: Please try again or contact support.", NoStatus, UNDEF)
    ELSE error

\* The catch blocks: the error each operation throws for the error it caught.
CreateError(resource, error) ==
    IF resource = "users" /\ HasCode(error, 403)
        THEN ErrorObj("Administrator access required to create users. Please login as an admin.", NoStatus, UNDEF)
    ELSE IF resource = "users" /\ HasCode(error, 401)
        THEN ErrorObj("Authentication required. Please login to create users.", NoStatus, UNDEF)
    ELSE IF resource = "users" /\ HasCode(error, 409)
        THEN ErrorObj("Username or email already exists. Please choose different credentials.", NoStatus, UNDEF)
    ELSE IF resource = "users" /\ HasCode(error, 422)
        THEN ErrorObj("Validation error: Please check all required fields are filled correctly.", NoStatus, UNDEF)
    ELSE IF resource = "users" /\ HasCode(error, 500)
        THEN ErrorObj("Server error: Please try again or contact support.", NoStatus, UNDEF)
    ELSE error

\* Mutant: update without the branch of 409.
UpdateErrorWithout409(resource, error) ==
    IF resource = "users" /\ HasCode(error, 403)
        THEN ErrorObj("Administrator access required to modify users.", NoStatus, UNDEF)
    ELSE IF resource = "users" /\ HasCode(error, 401)
        THEN ErrorObj("Authentication required. Please login to modify users.", NoStatus, UNDEF)
    ELSE IF resource = "users" /\ HasCode(error, 404)
        THEN ErrorObj("User not found.", NoStatus, UNDEF)
    ELSE error

UpdateError(resource, error) ==
    IF resource = "users" /\ HasCode(error, 403)
        THEN ErrorObj("Administrator access required to modify users.", NoStatus, UNDEF)
    ELSE IF resource = "users" /\ HasCode(error, 401)
        THEN ErrorObj("Authentication required. Please login to modify users.", NoStatus, UNDEF)
    ELSE IF resource = "users" /\ HasCode(error, 409)
        THEN ErrorObj("Username or email already exists for another user.", NoStatus, UNDEF)
    ELSE IF resource = "users" /\ HasCode(error, 404)
        THEN ErrorObj("User not found.", NoStatus, UNDEF)
    ELSE error

\* Mutant: delete answering 403 with the message of 401.
DeleteErrorAuthFirst(resource, error) ==
    IF resource = "users" /\ (HasCode(error, 401) \/ HasCode(error, 403))
        THEN ErrorObj("Authentication required. Please login to delete users.", NoStatus, UNDEF)
    ELSE IF resource = "users" /\ HasCode(error, 400)
        THEN IF IncludesCannotDelete(error.detail)
             THEN ErrorObj(error.detail, NoStatus, UNDEF)
             ELSE ErrorObj("Cannot delete this user.", NoStatus, UNDEF)
    ELSE error

\* Mutant: delete also rewrites 404 on users.
DeleteErrorRewrites404(resource, error) ==
    IF resource = "users" /\ HasCode(error, 403)
        THEN ErrorObj("Administrator access required to delete users.", NoStatus, UNDEF)
    ELSE IF resource = "users" /\ HasCode(error, 401)
        THEN ErrorObj("Authentication required. Please login to delete users.", NoStatus, UNDEF)
    ELSE IF resource = "users" /\ HasCode(error, 400)
        THEN IF IncludesCannotDelete(error.detail)
             THEN ErrorObj(error.detail, NoStatus, UNDEF)
             ELSE ErrorObj("Cannot delete this user.", NoStatus, UNDEF)
    ELSE IF resource = "users" /\ HasCode(error, 404)
        THEN ErrorObj("User not found.", NoStatus, UNDEF)
    ELSE error

DeleteError(resource, error) ==
    IF resource = "users" /\ HasCode(error, 403)
        THEN ErrorObj("Administrator access required to delete users.", NoStatus, UNDEF)
    ELSE IF resource = "users" /\ HasCode(error, 401)
        THEN ErrorObj("Authentication required. Please login to delete users.", NoStatus, UNDEF)
    ELSE IF resource = "users" /\ HasCode(error, 400)
        THEN IF IncludesCannotDelete(error.detail)
             THEN ErrorObj(error.detail, NoStatus, UNDEF)
             ELSE ErrorObj("Cannot delete this user.", NoStatus, UNDEF)
    ELSE error

\* Mutant: getList rewriting the errors of every resource.
GetListErrorAnyResource(resource, error) ==
    IF HasCode(error, 401)
        THEN ErrorObj("Authentication required to view users. Please login.", NoStatus, UNDEF)
    ELSE IF HasCode(error, 403)
        THEN ErrorObj("Access denied. You do not have permission to view users.", NoStatus, UNDEF)
    ELSE error

GetListError(resource, error) ==
    IF resource = "users" /\ HasCode(error, 401)
        THEN ErrorObj("Authentication required to view users. Please login.", NoStatus, UNDEF)
    ELSE IF resource = "users" /\ HasCode(error, 403)
        THEN ErrorObj("Access denied. You do not have permission to view users.", NoStatus, UNDEF)
    ELSE error

\* Mutant: getOne denying access on every status but 401.
GetOneErrorDeniesTheRest(resource, error) ==
    IF resource = "users" /\ HasCode(error, 401)
        THEN ErrorObj("Authentication required to view user details.", NoStatus, UNDEF)
    ELSE IF resource = "users"
        THEN ErrorObj("Access denied. You do not have permission to view this user.", NoStatus, UNDEF)
    ELSE error

GetOneError(resource, error) ==
    IF resource = "users" /\ HasCode(error, 401)
        THEN ErrorObj("Authentication required to view user details.", NoStatus, UNDEF)
    ELSE IF resource = "users" /\ HasCode(error, 403)
        THEN ErrorObj("Access denied. You do not have permission to view this user.", NoStatus, UNDEF)
    ELSE error

GatewayError(op, resource, error) ==
    CASE op = "create"  -> CreateError(resource, error)
      [] op = "update"  -> UpdateError(resource, error)
      [] op = "delete"  -> DeleteError(resource, error)
      [] op = "getList" -> GetListError(resource, error)
      [] op = "getOne"  -> GetOneError(resource, error)

\* Mutant: getList taking a list without records for a failure.
GetListSuccessRejectsEmpty(result) ==
    IF Len(result.value.data) = 0 THEN Reject("No records found") ELSE result

\* getList logs result.data.length and returns the result it awaited.
GetListSuccess(result) == result

\* The settled promise of the operation once the REST API answered resp.
GatewayResult(op, resource, resp) ==
    IF op \notin GatewayOps THEN BaseResult(op, resp)
    ELSE IF BaseResult(op, resp).outcome = "resolve"
    THEN IF op = "getList" THEN GetListSuccess(BaseResult(op, resp))
         ELSE BaseResult(op, resp)
    ELSE RejectWith(GatewayError(op, resource, BaseResult(op, resp).value))

\* An operation is called: it awaits the operation of baseDataProvider, whose
\* httpClient builds the request and hands it to fetchJson, once.
SendRequest(op, resource, id) ==
    /\ request = NoRequest
    /\ request' = [op |-> op, resource |-> resource, id |-> id,
                   authorization |-> Authorization(auth), sent |-> 1]

GatewayCall(op, resource, id) ==
    /\ SendRequest(op, resource, id)
    /\ UNCHANGED <<auth, now, logins, last, lastTransition, records, permissions, widgets, race>>

\* Mutant: the operation sends its request once more when the first one failed.
GatewaySettleRetrying(resp) ==
    /\ request # NoRequest
    /\ IF GatewayResult(request.op, request.resource, resp).outcome = "reject"
          /\ request.sent < 2
       THEN /\ request' = [request EXCEPT !.sent = @ + 1]
            /\ UNCHANGED last
       ELSE /\ last' = Call(request.op, GatewayResult(request.op, request.resource, resp),
                            [resource |-> request.resource, id |-> request.id,
                             resp |-> resp, authorization |-> request.authorization,
                             sent |-> request.sent])
            /\ request' = NoRequest
    /\ UNCHANGED <<auth, now, logins, lastTransition, permissions, widgets, race>>

\* The awaited request is answered and the operation settles.
GatewaySettle(resp) ==
    /\ request # NoRequest
    /\ last' = Call(request.op, GatewayResult(request.op, request.resource, resp),
                    [resource |-> request.resource, id |-> request.id, resp |-> resp,
                     authorization |-> request.authorization, sent |-> request.sent])
    /\ request' = NoRequest
    /\ UNCHANGED <<auth, now, logins, lastTransition, permissions, widgets, race>>

\* The REST API answers, whatever it holds.
GatewayResponse(resp) ==
    /\ GatewaySettle(resp)
    /\ UNCHANGED records

\* The cause handed to checkError: the Gateway call that raised the error, the
\* header its request was sent with and the header of the session current now.
GatewayCause ==
    [op |-> last.op, resource |-> last.args.resource, resp |-> last.args.resp,
     authorization |-> last.args.authorization, session |-> Authorization(auth)]

\* Mutant: the invalidation is tied to the credential that was rejected.
CheckErrorOfGatewayTiedToCredential ==
    /\ last.op \in GatewayOps
    /\ last.outcome = "reject"
    /\ IF last.args.authorization = Authorization(auth)
       THEN CheckError(last.value.status, GatewayCause)
       ELSE /\ last' = Call("checkError", CheckErrorResult(last.value.status),
                            [status |-> last.value.status, cause |-> GatewayCause])
            /\ UNCHANGED <<auth, now, logins, request, lastTransition, records, permissions, widgets, race>>

\* The error a Gateway operation raised is handed to checkError.
CheckErrorOfGateway ==
    /\ last.op \in GatewayOps
    /\ last.outcome = "reject"
    /\ CheckError(last.value.status, GatewayCause)

(***************************************************************************)
(* The dashboard widgets (TopDriversByWins, ConstructorChampionshipChart). *)
(* Each keeps data, error and loading in React state and fetches once in   *)
(* the effect of its mount; the effect's closure holds a flag `mounted`    *)
(* that its cleanup clears.  A fetch in flight is counted under `live`     *)
(* while the flag of its closure is set and under `dead` once it is        *)
(* cleared.                                                                *)
(***************************************************************************)
NULL == "<null>"

Widgets == {"TopDriversByWins", "ConstructorChampionshipChart"}

\* useState's initial value of the data.
InitialData(w) == IF w = "TopDriversByWins" THEN NULL ELSE <<>>

\* The answer that settled last, none yet.
NoneDone == [answered |-> FALSE, live |-> FALSE, resp |-> ApiUnreachable]

InitialWidget(w) ==
    [mounted |-> FALSE, data |-> InitialData(w), error |-> NULL, loading |-> TRUE,
     live |-> 0, dead |-> 0, done |-> NoneDone]

\* httpClient of the dashboard: fetchUtils.fetchJson, every failure rethrown
\* as a plain Error with the same message.
FetchJson(resp) ==
    IF ~resp.reachable THEN Reject("Failed to fetch")
    ELSE IF resp.code >= 200 /\ resp.code < 300 THEN Resolve([json |-> resp.data])
    ELSE Reject("HTTP " \o ToString(resp.code))

ErrorPrefix(w) ==
    IF w = "TopDriversByWins" THEN "Failed to load top drivers: "
    ELSE "Failed to load constructor data: "

\* The component mounts: fresh state, the effect runs fetchData up to its await.
Mount(w) ==
    /\ ~widgets[w].mounted
    /\ widgets[w].live + widgets[w].dead < MaxInFlight
    /\ widgets' = [widgets EXCEPT ![w] =
                     [mounted |-> TRUE, data |-> InitialData(w), error |-> NULL,
                      loading |-> TRUE, live |-> 1, dead |-> @.dead, done |-> NoneDone]]
    /\ UNCHANGED <<auth, now, logins, request, last, lastTransition, records, permissions, race>>

\* The component unmounts: the cleanup of the effect clears `mounted`.
Unmount(w) ==
    /\ widgets[w].mounted
    /\ widgets' = [widgets EXCEPT ![w] =
                     [@ EXCEPT !.mounted = FALSE, !.live = 0, !.dead = @ + widgets[w].live]]
    /\ UNCHANGED <<auth, now, logins, request, last, lastTransition, records, permissions, race>>

\* What fetchData does to the state after its await when `mounted` is set.
Settled(w, state, resp) ==
    LET r == FetchJson(resp) IN
    IF r.outcome = "resolve"
    THEN [state EXCEPT !.data = r.value.json, !.loading = FALSE]
    ELSE [state EXCEPT !.error = ErrorPrefix(w) \o r.value.message, !.loading = FALSE]

\* Mutant: fetchData sets the state without testing `mounted`.
WidgetSettleUnguarded(w, live, resp) ==
    /\ IF live THEN widgets[w].live > 0 ELSE widgets[w].dead > 0
    /\ widgets' = [widgets EXCEPT ![w] =
                     [Settled(w, @, resp) EXCEPT
                        !.live = IF live THEN @ - 1 ELSE @,
                        !.dead = IF live THEN @ ELSE @ - 1,
                        !.done = [answered |-> TRUE, live |-> live, resp |-> resp]]]
    /\ UNCHANGED <<auth, now, logins, request, last, lastTransition, records, permissions, race>>

\* The fetch of a closure whose flag is `live` settles with `resp`:
\* try / catch / finally of fetchData, each setter under `if (mounted)`.
WidgetSettle(w, live, resp) ==
    /\ IF live THEN widgets[w].live > 0 ELSE widgets[w].dead > 0
    /\ widgets' = [widgets EXCEPT ![w] =
                     [(IF live THEN Settled(w, @, resp) ELSE @) EXCEPT
                        !.live = IF live THEN @ - 1 ELSE @,
                        !.dead = IF live THEN @ ELSE @ - 1,
                        !.done = [answered |-> TRUE, live |-> live, resp |-> resp]]]
    /\ UNCHANGED <<auth, now, logins, request, last, lastTransition, records, permissions, race>>

(***************************************************************************)
(* The race detail view (RaceShow): the effect on [id] runs                *)
(* fetchRaceDetails, which sets the state after its await whatever the id  *)
(* is by then.                                                             *)
(***************************************************************************)
RaceIds == {"1", "2"}

\* The answer of GET /races/{id}/details.
RaceDetails(id) == [race |-> id, drivers |-> <<id>>]

InitialRace ==
    [id |-> UNDEF, raceInfo |-> NULL, drivers |-> <<>>, error |-> NULL, loading |-> TRUE,
     pending |-> [i \in RaceIds |-> 0]]

\* The message of the catch block of fetchRaceDetails.
RaceErrorMessage(resp) ==
    IF resp.reachable /\ resp.code = 404
        THEN "Race not found. It may have been deleted or the ID is incorrect."
    ELSE IF resp.reachable /\ resp.code >= 500
        THEN "Server error occurred. Please try again later."
    ELSE IF resp.reachable /\ Truthy(resp.detail) THEN resp.detail
    ELSE IF resp.reachable
        THEN "Connection error: Request failed with status code " \o ToString(resp.code)
    ELSE "Connection error: Network Error"

\* The route shows race id (first render, or the id of the route changes):
\* the effect runs fetchRaceDetails up to its await.
RaceOpen(id) ==
    /\ id # race.id
    /\ SumOver(race.pending, RaceIds) < MaxInFlight
    /\ race' = [race EXCEPT !.id = id, !.loading = TRUE, !.error = NULL,
                            !.pending[id] = @ + 1]
    /\ UNCHANGED <<auth, now, logins, request, last, lastTransition, records, permissions, widgets>>

\* The request for race id settles with `resp`.
RaceSettle(id, resp) ==
    /\ race.pending[id] > 0
    /\ race' = IF resp.reachable /\ resp.code >= 200 /\ resp.code < 300
               THEN [race EXCEPT !.raceInfo = RaceDetails(id),
                                 !.drivers = RaceDetails(id).drivers,
                                 !.loading = FALSE, !.pending[id] = @ - 1]
               ELSE [race EXCEPT !.error = RaceErrorMessage(resp),
                                 !.loading = FALSE, !.pending[id] = @ - 1]
    /\ UNCHANGED <<auth, now, logins, request, last, lastTransition, records, permissions, widgets>>

(***************************************************************************)
(* Time passes.                                                            *)
(***************************************************************************)
Tick ==
    /\ now < MaxClock
    /\ now' = now + 1
    /\ UNCHANGED <<auth, logins, last, lastTransition, request, records, permissions, widgets, race>>

(***************************************************************************)
(* The session manager.                                                    *)
(***************************************************************************)
Init ==
    /\ auth \in InitialStorage
    /\ now = 0
    /\ logins = [a \in CredentialAttempts |-> 0]
    /\ request = NoRequest
    /\ last = NoCall
    /\ lastTransition = "none"
    /\ records = InitialRecords
    /\ permissions = UNDEF
    /\ widgets = [w \in Widgets |-> InitialWidget(w)]
    /\ race = InitialRace

Next ==
    \/ \E a \in CredentialAttempts : LoginStart(a)
    \/ \E a \in CredentialAttempts, r \in Responses : LoginComplete(a, r)
    \/ Logout
    \/ \E s \in ErrorStatuses : CheckError(s, NoArgs)
    \/ CheckAuth
    \/ GetPermissions
    \/ GetIdentity
    \/ Tick

Spec == Init /\ [][Next]_vars

(***************************************************************************)
(* The resource gateway, with the session manager it reads the token of.   *)
(* The session changes by a fallback login, a remote login, logout and the *)
(* checkError of a Gateway error.                                          *)
(***************************************************************************)
GatewayAttempts == { [username |-> "admin", password |-> "admin"] }

GatewayLoginResponses ==
    { Unreachable }
    \cup { Answer(TRUE, SuccessBody(u, RemoteToken)) : u \in RemoteUsers }

GatewayNext ==
    \/ \E op \in GatewayOps, res \in Resources :
          \E id \in OpIds(op) \cap {UNDEF, "1"} : GatewayCall(op, res, id)
    \/ \E resp \in ApiResponses : GatewayResponse(resp)
    \/ CheckErrorOfGateway
    \/ \E a \in GatewayAttempts : LoginStart(a)
    \/ \E a \in GatewayAttempts, r \in GatewayLoginResponses : LoginComplete(a, r)
    \/ Logout
    \/ CheckAuth

GatewaySpec == Init /\ [][GatewayNext]_vars

(***************************************************************************)
(* The resource gateway in front of a REST API that keeps its records: it  *)
(* lists the records it holds, answers 404 for an identifier it does not   *)
(* hold, and a delete removes the record.  Records are not created here.   *)
(***************************************************************************)
BackendOps == {"getList", "getOne", "update", "delete"}

BackendResponse(req, recs) ==
    IF req.op = "getList"
    THEN ApiSuccess(SelectSeq(IdOrder, LAMBDA i : i \in recs[req.resource]), TRUE)
    ELSE IF req.id \in recs[req.resource] THEN ApiSuccess(<<req.id>>, FALSE)
    ELSE ApiError(404, "Not found")

BackendRecords(req, recs) ==
    IF req.op = "delete" THEN [recs EXCEPT ![req.resource] = @ \ {req.id}] ELSE recs

BackendAnswer ==
    /\ request # NoRequest
    /\ GatewaySettle(BackendResponse(request, records))
    /\ records' = BackendRecords(request, records)

BackendNext ==
    \/ \E op \in BackendOps, res \in Resources :
          \E id \in OpIds(op) : GatewayCall(op, res, id)
    \/ BackendAnswer

BackendSpec == Init /\ [][BackendNext]_vars

(***************************************************************************)
(* The user and driver forms (pages/users.tsx, pages/drivers.tsx).  The    *)
(* text of a form field is a sequence of characters, so that trim() and    *)
(* the email pattern are computed; Missing is a field the form data does   *)
(* not have.  The SaveButton hands the form data to its transform, and     *)
(* what transform returns to dataProvider.create or dataProvider.update.   *)
(***************************************************************************)
Missing == <<UNDEF>>

Whitespace == {" "}

RECURSIVE TrimStart(_)
TrimStart(text) ==
    IF text # <<>> /\ Head(text) \in Whitespace THEN TrimStart(Tail(text)) ELSE text

RECURSIVE TrimEnd(_)
TrimEnd(text) ==
    IF text # <<>> /\ text[Len(text)] \in Whitespace
    THEN TrimEnd(SubSeq(text, 1, Len(text) - 1))
    ELSE text

Trim(text) == TrimEnd(TrimStart(text))

\* !v
Falsy(v) == v = Missing \/ v = <<>>

\* Mutant: the required-field test without the trim.
TrimmedFalsyNoTrim(v) == Falsy(v)

\* !v?.trim()
TrimmedFalsy(v) == v = Missing \/ Trim(v) = <<>>

\* /^[^\s@]+@[^\s@]+\.[^\s@]+$/.test(text)
NoSpaceNoAt(text, from, to) ==
    \A k \in from..to : text[k] \notin Whitespace \cup {"@"}

EmailRegexTest(text) ==
    \E i, j \in 1..Len(text) :
        /\ 1 < i /\ i + 1 < j /\ j < Len(text)
        /\ text[i] = "@" /\ text[j] = "."
        /\ NoSpaceNoAt(text, 1, i - 1)
        /\ NoSpaceNoAt(text, i + 1, j - 1)
        /\ NoSpaceNoAt(text, j + 1, Len(text))

\* errors, as the transform of UserFormToolbar collects them.
UserFormErrors(data) ==
    (IF TrimmedFalsy(data.username) THEN {"Username is required"} ELSE {})
    \cup (IF TrimmedFalsy(data.email) THEN {"Email is required"} ELSE {})
    \cup (IF TrimmedFalsy(data.full_name) THEN {"Full name is required"} ELSE {})
    \cup (IF Falsy(data.role) THEN {"Role selection is required"} ELSE {})
    \cup (IF ~Falsy(data.email) /\ ~EmailRegexTest(data.email)
          THEN {"Please enter a valid email address"} ELSE {})

\* errors, as the transform of DriverFormToolbar collects them.
DriverFormErrors(data) ==
    (IF TrimmedFalsy(data.driver_ref) THEN {"Driver reference is required"} ELSE {})
    \cup (IF TrimmedFalsy(data.forename) THEN {"First name is required"} ELSE {})
    \cup (IF TrimmedFalsy(data.surname) THEN {"Last name is required"} ELSE {})
    \cup (IF TrimmedFalsy(data.nationality) THEN {"Nationality is required"} ELSE {})
    \cup (IF Falsy(data.dob) THEN {"Date of birth is required"} ELSE {})

\* usePermissions(): the hook calls getPermissions and holds what it resolved
\* with, undefined when it rejected.
LoadPermissions ==
    /\ permissions' = IF GetPermissionsResult(auth).outcome = "resolve"
                      THEN GetPermissionsResult(auth).value.role
                      ELSE UNDEF
    /\ last' = Call("getPermissions", GetPermissionsResult(auth), NoArgs)
    /\ UNCHANGED <<auth, now, logins, lastTransition, request, records, widgets, race>>

\* const isAdmin = permissions === 'admin'
IsAdmin(perm) == perm = "admin"

\* UserList: the row actions of the Actions column.
UserListActions(perm) == IF IsAdmin(perm) THEN {"edit", "delete"} ELSE {}

\* UserList: its DataTable is not given bulkActionButtons={false}, as the tables
\* of the dashboard are, so it has the row checkboxes and the bulk delete
\* button react-admin gives a DataTable by default, whoever looks at it.
UserListBulkActions(perm) == {"delete"}

\* UserCreate and UserEdit: the form, or AdminOnlyMessage in its place.
RendersUserForm(perm) == IsAdmin(perm)

\* UserFormToolbar: the SaveButton, or the alert in its place.
RendersSaveButton(perm) == IsAdmin(perm)

\* The SaveButton is clicked on a Create (mode "create") or Edit ("update")
\* form: with errors transform notifies them and throws, and the save ends
\* there; without, the data goes to the operation of the dataProvider.
Save(resource, mode, data, errors) ==
    /\ IF errors # {}
       THEN /\ last' = Call("save", Reject("Validation failed"),
                            [resource |-> resource, mode |-> mode, data |-> data,
                             notified |-> errors])
            /\ UNCHANGED request
       ELSE /\ SendRequest(mode, resource, IF mode = "update" THEN "1" ELSE UNDEF)
            /\ last' = Call("save", Resolve(data),
                            [resource |-> resource, mode |-> mode, data |-> data,
                             notified |-> {}])
    /\ UNCHANGED <<auth, now, logins, lastTransition, records, permissions, widgets, race>>

\* The SaveButton of the user form is there for an administrator only.
SaveUser(mode, data) ==
    /\ RendersUserForm(permissions)
    /\ RendersSaveButton(permissions)
    /\ Save("users", mode, data, UserFormErrors(data))

\* DriverFormToolbar renders it for everyone.
SaveDriver(mode, data) ==
    /\ Save("drivers", mode, data, DriverFormErrors(data))

\* What the forms are filled with.
TextInputs == { Missing, <<>>, <<" ">>, <<" ", "b">> }

NameInputs == { <<" ", " ">>, <<"n">> }

EmailInputs ==
    { Missing, <<>>, <<"a", "@", "b", ".", "c">>, <<"a", "@", "b">>,
      <<"a", " ", "@", "b", ".", "c">>, <<"@", "b", ".", "c">>, <<"a", "@", "b", ".">> }

ChoiceInputs == { Missing, <<>>, <<"c">> }

UserForms ==
    [username : TextInputs, email : EmailInputs, full_name : NameInputs, role : ChoiceInputs]

DriverForms ==
    [driver_ref : TextInputs, forename : NameInputs, surname : NameInputs,
     nationality : NameInputs, dob : ChoiceInputs]

\* The answers to a save: the record, or the server's own validation error.
FormResponses == { ApiSuccess(<<"1">>, FALSE), ApiError(422, UNDEF) }

FormNext ==
    \/ LoadPermissions
    \/ \E mode \in {"create", "update"}, data \in UserForms : SaveUser(mode, data)
    \/ \E mode \in {"create", "update"}, data \in DriverForms : SaveDriver(mode, data)
    \/ \E resp \in FormResponses : GatewayResponse(resp)

FormSpec == Init /\ [][FormNext]_vars

(***************************************************************************)
(* The user management screens: the list with its row actions, the create  *)
(* and edit forms.  Sessions of the roles admin and user come from the     *)
(* fallback login; the screens load the permissions of the stored session. *)
(***************************************************************************)
\* DeleteWithConfirmButton of a row of UserList, confirmed.
DeleteUser(id) ==
    /\ "delete" \in UserListActions(permissions)
    /\ GatewayCall("delete", "users", id)

\* The bulk delete button of UserList on a selected row: deleteMany is the
\* operation of baseDataProvider, which sends a DELETE for the id.
BulkDeleteUsers(id) ==
    /\ "delete" \in UserListBulkActions(permissions)
    /\ GatewayCall("deleteMany", "users", id)

UiAttempts ==
    { [username |-> "admin", password |-> "admin"],
      [username |-> "user",  password |-> "user123"],
      [username |-> "test",  password |-> "test"] }

UiForms ==
    { [username |-> <<" ", "b">>, email |-> e, full_name |-> <<"n">>, role |-> <<"c">>] :
        e \in { <<"a", "@", "b", ".", "c">>, <<"a", "@", "b">> } }

UiNext ==
    \/ \E a \in UiAttempts : LoginStart(a)
    \/ \E a \in UiAttempts : LoginComplete(a, Unreachable)
    \/ Logout
    \/ LoadPermissions
    \/ \E id \in Ids : DeleteUser(id)
    \/ \E id \in Ids : BulkDeleteUsers(id)
    \/ \E mode \in {"create", "update"}, data \in UiForms : SaveUser(mode, data)
    \/ \E resp \in FormResponses : GatewayResponse(resp)

UiSpec == Init /\ [][UiNext]_vars

(***************************************************************************)
(* Every operation of the session manager and of the gateway together,     *)
(* over a few inputs of each kind: an attempt the fallback accepts and one *)
(* it does not, a remote endpoint that is down, accepts or refuses, and a  *)
(* REST API that is down, answers, refuses the token or fails.             *)
(***************************************************************************)
FrameAttempts ==
    { [username |-> "admin", password |-> "admin"],
      [username |-> "admin", password |-> "user123"] }

FrameLoginResponses ==
    { Unreachable, Answer(FALSE, NoBody) }
    \cup { Answer(TRUE, SuccessBody(u, RemoteToken)) : u \in RemoteUsers }

FrameApiResponses ==
    { ApiUnreachable, ApiSuccess(<<"1">>, TRUE), ApiError(401, UNDEF), ApiError(500, UNDEF) }

FrameNext ==
    \/ \E a \in FrameAttempts : LoginStart(a)
    \/ \E a \in FrameAttempts, r \in FrameLoginResponses : LoginComplete(a, r)
    \/ Logout
    \/ \E s \in ErrorStatuses : CheckError(s, NoArgs)
    \/ CheckAuth
    \/ GetPermissions
    \/ GetIdentity
    \/ \E op \in GatewayOps, res \in Resources :
          \E id \in OpIds(op) \cap {UNDEF, "1"} : GatewayCall(op, res, id)
    \/ \E resp \in FrameApiResponses : GatewayResponse(resp)
    \/ CheckErrorOfGateway

FrameSpec == Init /\ [][FrameNext]_vars

(***************************************************************************)
(* The dashboard widgets under every order of mounting, unmounting and     *)
(* answers.                                                                *)
(***************************************************************************)
WidgetResponses ==
    { ApiUnreachable, ApiSuccess(<<>>, TRUE), ApiSuccess(<<"1">>, TRUE), ApiError(500, UNDEF) }

WidgetNext ==
    \/ \E w \in Widgets : Mount(w)
    \/ \E w \in Widgets : Unmount(w)
    \/ \E w \in Widgets, live \in BOOLEAN, resp \in WidgetResponses :
          WidgetSettle(w, live, resp)

WidgetSpec == Init /\ [][WidgetNext]_vars

(***************************************************************************)
(* The race detail view under every order of navigation and answers.       *)
(***************************************************************************)
RaceResponses ==
    { ApiUnreachable, ApiSuccess(<<>>, TRUE), ApiError(400, UNDEF),
      ApiError(400, "Invalid race id"), ApiError(404, UNDEF), ApiError(500, UNDEF) }

RaceNext ==
    \/ \E id \in RaceIds : RaceOpen(id)
    \/ \E id \in RaceIds, resp \in RaceResponses : RaceSettle(id, resp)

RaceSpec == Init /\ [][RaceNext]_vars

(***************************************************************************)
(* The properties.  The vocabulary they are stated in.                     *)
(***************************************************************************)
\* The fallback allow-list as the specification states it.
AllowList ==
    { [username |-> "admin", password |-> "admin",   role |-> "admin"],
      [username |-> "user",  password |-> "user123", role |-> "user"],
      [username |-> "test",  password |-> "test",    role |-> "viewer"] }

AllowListEntries(cred) ==
    { e \in AllowList : e.username = cred.username /\ e.password = cred.password }

OnAllowList(cred) == AllowListEntries(cred) # {}

\* The remote endpoint answered and refused: a non-success response.
RemoteRejected(resp) == resp.reachable /\ ~resp.ok

\* The remote endpoint accepted: a success response whose body is JSON with a
\* user object.
RemoteAccepted(resp) == resp.reachable /\ resp.ok /\ resp.body.json /\ resp.body.hasUser

\* The primary path failed: unreachable, non-success, or an unusable body.
PrimaryFailed(resp) == ~RemoteAccepted(resp)

\* The role a successful login recorded.
RecordedRole(cred, resp) ==
    IF RemoteAccepted(resp)
    THEN Get(resp.body.user, "role")
    ELSE (CHOOSE e \in AllowListEntries(cred) : TRUE).role

\* This step is the completion of a login call.
LoginCompletes == \E a \in CredentialAttempts : logins'[a] < logins[a]

\* The stored item is a session record and f is one of its non-empty fields.
StoredField(item, f) == item.kind = "json" /\ Truthy(Get(item.obj, f))

FullyPopulated(item) ==
    \A f \in {"username", "fullName", "role", "token", "loginTime"} : StoredField(item, f)

\* The tokens the fallback can have generated up to now.
LocalTokens == { "static-jwt-token-" \o ToString(t) : t \in 0..now }

(***************************************************************************)
(* C1.  After a login that resolved, and until a logout or a checkError of *)
(* 401/403, checkAuth resolves and getPermissions resolves with the role   *)
(* that login recorded.  The code does not keep this: see C5.              *)
(***************************************************************************)
C1_LoginThenAuthenticated ==
    /\ lastTransition = "login" =>
          /\ CheckAuthResult(auth).outcome = "resolve"
          /\ GetPermissionsResult(auth).outcome = "resolve"
    /\ (last.op = "checkAuth" /\ lastTransition = "login") => last.outcome = "resolve"
    /\ (last.op = "login" /\ last.outcome = "resolve") =>
          GetPermissionsResult(auth) =
              Resolve([role |-> RecordedRole(last.args.cred, last.args.resp)])

(***************************************************************************)
(* C2.  logout resolves and removes the stored item whatever was stored;   *)
(* from then on, until a login succeeds, the item stays absent and every   *)
(* checkAuth rejects.                                                      *)
(***************************************************************************)
C2_LogoutClears ==
    /\ last.op = "logout" => last.outcome = "resolve" /\ auth = NoItem
    /\ lastTransition = "logout" =>
          /\ auth = NoItem
          /\ CheckAuthResult(auth).outcome = "reject"
    /\ (last.op = "checkAuth" /\ lastTransition = "logout") => last.outcome = "reject"

\* A checkAuth ran after a logout, with a login still in flight, and rejected.
C2_Witness ==
    /\ last.op = "checkAuth"
    /\ lastTransition = "logout"
    /\ last.outcome = "reject"
    /\ InFlight > 0

(***************************************************************************)
(* C3.  When a Gateway operation fails on a 401 or 403 response, handing   *)
(* the error it raised to checkError invalidates the session: a checkAuth  *)
(* that follows rejects.  The code does not keep this for `users`.         *)
(***************************************************************************)
C3_GatewayAuthErrorInvalidates ==
    (/\ last.op = "checkError"
     /\ "resp" \in DOMAIN last.args.cause
     /\ last.args.cause.resp.reachable
     /\ last.args.cause.resp.code \in {401, 403})
    => CheckAuthResult(auth).outcome = "reject"

(***************************************************************************)
(* C4.  A login whose credentials are not on the allow-list and which the  *)
(* remote endpoint rejects is rejected with an error message and writes    *)
(* nothing to storage.                                                     *)
(***************************************************************************)
C4_RejectedLoginWritesNothing ==
    [][ (/\ LoginCompletes
         /\ ~OnAllowList(last'.args.cred)
         /\ RemoteRejected(last'.args.resp))
        => /\ last'.outcome = "reject"
           /\ Truthy(last'.value.message)
           /\ auth' = auth ]_vars

\* Such a login was rejected while a session record was stored.
C4_Witness ==
    /\ last.op = "login"
    /\ ~OnAllowList(last.args.cred)
    /\ RemoteRejected(last.args.resp)
    /\ last.outcome = "reject"
    /\ auth.kind = "json"

(***************************************************************************)
(* C5.  Every item a step of the program stores is either absent or a      *)
(* fully populated session: username, display name, role, non-empty token  *)
(* and creation timestamp.  The code does not keep this on the remote      *)
(* success path.                                                           *)
(***************************************************************************)
C5_NoPartialSession ==
    [][ auth' # auth => (auth' = NoItem \/ FullyPopulated(auth')) ]_vars

(***************************************************************************)
(* C6.  checkAuth resolves iff the stored item is a session record with a  *)
(* non-empty token; otherwise it rejects and leaves nothing stored.  The   *)
(* code does not remove a record that parses but has no token.             *)
(***************************************************************************)
C6_CheckAuthClearsMalformed ==
    last.op = "checkAuth" =>
        /\ last.outcome = "resolve" <=> StoredField(auth, "token")
        /\ last.outcome = "reject" =>
              /\ last.value.message = "Not authenticated"
              /\ auth = NoItem

(***************************************************************************)
(* C7.  checkError rejects and removes the stored item iff the status is   *)
(* 401 or 403; for every other status, and for an error without a status,  *)
(* it resolves and leaves the stored item as it was.                       *)
(***************************************************************************)
C7_CheckErrorIff401Or403 ==
    [][ (last'.op = "checkError" /\ last' # last) =>
          IF last'.args.status.has /\ last'.args.status.code \in {401, 403}
          THEN last'.outcome = "reject" /\ auth' = NoItem
          ELSE last'.outcome = "resolve" /\ auth' = auth ]_vars

\* checkError(403) rejected and the item is gone.
C7_Witness ==
    /\ last.op = "checkError"
    /\ last.args.status = HttpStatus(403)
    /\ last.outcome = "reject"
    /\ auth = NoItem
    /\ lastTransition = "checkError"

(***************************************************************************)
(* C8.  When the primary remote login fails, login succeeds iff the        *)
(* credentials are one of the allow-list pairs, and the session it stores  *)
(* carries that entry's role and a non-empty locally generated token.      *)
(***************************************************************************)
C8_FallbackIffAllowListed ==
    (last.op = "login" /\ PrimaryFailed(last.args.resp)) =>
        /\ last.outcome = "resolve" <=> OnAllowList(last.args.cred)
        /\ last.outcome = "resolve" =>
              /\ auth.kind = "json"
              /\ Get(auth.obj, "role") = RecordedRole(last.args.cred, last.args.resp)
              /\ Truthy(Get(auth.obj, "token"))
              /\ Get(auth.obj, "token") \in LocalTokens

\* admin/admin against an unreachable endpoint gave a session with role admin.
C8_Witness ==
    /\ last.op = "login"
    /\ last.args.cred = [username |-> "admin", password |-> "admin"]
    /\ last.args.resp = Unreachable
    /\ last.outcome = "resolve"
    /\ StoredField(auth, "role")
    /\ auth.obj["role"] = "admin"

(***************************************************************************)
(* C9.  When the remote endpoint accepts, the stored username, role and    *)
(* token are those of the remote response, also for credentials that are   *)
(* on the allow-list.                                                      *)
(***************************************************************************)
C9_RemoteSessionFromResponse ==
    (last.op = "login" /\ RemoteAccepted(last.args.resp)) =>
        /\ last.outcome = "resolve"
        /\ auth.kind = "json"
        /\ Get(auth.obj, "username") = Get(last.args.resp.body.user, "username")
        /\ Get(auth.obj, "role") = Get(last.args.resp.body.user, "role")
        /\ Get(auth.obj, "token") = last.args.resp.body.access_token
        /\ Get(auth.obj, "token") \notin LocalTokens

\* Allow-listed credentials were accepted remotely with another role than the
\* allow-list's, and that role is the one stored.
C9_Witness ==
    /\ last.op = "login"
    /\ OnAllowList(last.args.cred)
    /\ RemoteAccepted(last.args.resp)
    /\ StoredField(auth, "role")
    /\ auth.obj["role"] # RecordedRole(last.args.cred, Unreachable)
    /\ StoredField(auth, "token")
    /\ auth.obj["token"] = RemoteToken

(***************************************************************************)
(* C10.  When login fails on both paths and the remote endpoint answered   *)
(* with an error body that has a detail text, the rejection carries that   *)
(* text; the generic 'Invalid username or password' is carried only when   *)
(* the failure of the remote path left no message.                         *)
(***************************************************************************)
RemoteDetailText(resp) ==
    IF RemoteRejected(resp) /\ resp.body.json THEN resp.body.detail ELSE UNDEF

C10_MostSpecificMessage ==
    (last.op = "login" /\ last.outcome = "reject") =>
        /\ Truthy(RemoteDetailText(last.args.resp)) =>
              last.value.message = RemoteDetailText(last.args.resp)
        /\ last.value.message = "Invalid username or password" =>
              /\ ~Truthy(RemoteDetailText(last.args.resp))
              /\ ~Truthy(last.args.resp.failure)
              /\ ~last.args.resp.reachable

\* A login was rejected with the detail text of the remote error body.
C10_Witness ==
    /\ last.op = "login"
    /\ last.outcome = "reject"
    /\ Truthy(RemoteDetailText(last.args.resp))
    /\ last.value.message = "Incorrect username or password"

(***************************************************************************)
(* C11.  A request of a Gateway operation carries "Authorization: Bearer   *)
(* t" exactly when, as the request is built, the stored session parses and *)
(* holds a non-empty token t.  Without a session, or with a record that    *)
(* does not parse, the request is sent all the same, without the header:   *)
(* every operation can be called in every state of the storage.            *)
(***************************************************************************)
RequestBuilt == request = NoRequest /\ request' # NoRequest

ExpectedHeader(item) ==
    IF StoredField(item, "token") THEN "Bearer " \o item.obj["token"] ELSE UNDEF

GatewayFailed == last.op \in GatewayOps /\ last.outcome = "reject"

Answered(ops, resource, code) ==
    /\ last.op \in ops
    /\ last.args.resource = resource
    /\ last.args.resp.reachable
    /\ last.args.resp.code = code

RawError == BaseResult(last.op, last.args.resp).value

\* An error made for the user: a message, and nothing of the HTTP exchange.
UserFacing(error) == ~error.status.has /\ Truthy(error.message) /\ error.detail = UNDEF

(***************************************************************************)
(* C12.  create and update on `users`, answered with 409, reject with a    *)
(* Conflict error whose message says that the username or the email exists *)
(* already, not with the error of the REST client.                         *)
(***************************************************************************)
ConflictMessages ==
    { "Username or email already exists. Please choose different credentials.",
      "Username or email already exists for another user." }

C12_ConflictOnUsers ==
    Answered({"create", "update"}, "users", 409) =>
        /\ last.outcome = "reject"
        /\ last.value.message \in ConflictMessages
        /\ UserFacing(last.value)
        /\ last.value # RawError

\* An update of a user was answered with 409 and rejected as a conflict.
C12_Witness ==
    /\ Answered({"update"}, "users", 409)
    /\ last.value.message = "Username or email already exists for another user."

ListedStatuses(op) ==
    CASE op = "create"  -> {401, 403, 409, 422, 500}
      [] op = "update"  -> {401, 403, 404, 409}
      [] op = "delete"  -> {400, 401, 403}
      [] op = "getList" -> {401, 403}
      [] op = "getOne"  -> {401, 403}

AdminRequiredMessages ==
    { "Administrator access required to create users. Please login as an admin.",
      "Administrator access required to modify users.",
      "Administrator access required to delete users." }

MessageOn401(op) == GatewayResult(op, "users", ApiError(401, UNDEF)).value.message

C14_AccessDeniedOnUsers ==
    Answered({"create", "update", "delete"}, "users", 403) =>
        /\ last.outcome = "reject"
        /\ UserFacing(last.value)
        /\ last.value.message \in AdminRequiredMessages
        /\ last.value.message # MessageOn401(last.op)

\* A delete of a user was answered with 403.
C14_Witness ==
    /\ Answered({"delete"}, "users", 403)
    /\ last.value.message = "Administrator access required to delete users."

(***************************************************************************)
(* C15, as stated.  Every operation answered with a 5xx status rejects     *)
(* with the ServerFault error and its retry-later message.                 *)
(***************************************************************************)
ServerFaultMessage == "Server error: Please try again or contact support."

Answered5xx == last.op \in GatewayOps /\ last.args.resp.reachable /\ last.args.resp.code >= 500

Deleted(resource, id) == id \in InitialRecords[resource] \ records[resource]

NotFoundKind(error) == error.status = HttpStatus(404)

AnsweredEmptyList ==
    /\ last.op = "getList"
    /\ last.args.resp.reachable
    /\ last.args.resp.code \in 200..299
    /\ last.args.resp.hasCount
    /\ last.args.resp.data = <<>>

C17_EmptyListResolves ==
    AnsweredEmptyList =>
        /\ last.outcome = "resolve"
        /\ last.value.data = <<>>
        /\ last.value.total = 0

\* The list of users was answered without records.
C17_Witness ==
    /\ AnsweredEmptyList
    /\ last.args.resource = "users"
    /\ last.outcome = "resolve"

(***************************************************************************)
(* C18.  Form data that fails the validation of the form (a required text  *)
(* field empty or of whitespace only, the role or the date of birth        *)
(* missing, an email that does not have the form of an address) aborts the *)
(* save before the Gateway is called: no request goes out for it.          *)
(***************************************************************************)
Blank(v) == v = Missing \/ \A k \in 1..Len(v) : v[k] = " "

NotChosen(v) == v \in {Missing, <<>>}

Addresses == { <<"a", "@", "b", ".", "c">> }

FailsValidation(resource, data) ==
    IF resource = "users"
    THEN \/ Blank(data.username) \/ Blank(data.email) \/ Blank(data.full_name)
         \/ NotChosen(data.role)
         \/ data.email \notin Addresses
    ELSE \/ Blank(data.driver_ref) \/ Blank(data.forename) \/ Blank(data.surname)
         \/ Blank(data.nationality)
         \/ NotChosen(data.dob)

C18_InvalidFormSendsNothing ==
    [][(last'.op = "save" /\ FailsValidation(last'.args.resource, last'.args.data)) =>
          /\ request' = request
          /\ last'.outcome = "reject"
          /\ last'.args.notified # {}]_vars

\* A user form whose only fault is the email was saved, with no request
\* pending before or after.
C18_Witness ==
    /\ last.op = "save"
    /\ last.args.resource = "users"
    /\ last.args.notified = {"Please enter a valid email address"}
    /\ last.outcome = "reject"
    /\ request = NoRequest

SubmittedPasswords ==
    { a.password : a \in { c \in CredentialAttempts : c.password # c.username } }

C20_PasswordNeverStored ==
    auth.kind = "json" =>
        /\ "password" \notin DOMAIN auth.obj
        /\ \A f \in DOMAIN auth.obj : auth.obj[f] \notin SubmittedPasswords

\* The fallback accepted user / user123 and its session is stored.
C20_Witness ==
    /\ last.op = "login"
    /\ last.outcome = "resolve"
    /\ last.args.cred.password \in SubmittedPasswords
    /\ StoredField(auth, "username")
    /\ auth.obj["username"] = last.args.cred.username

(***************************************************************************)
(* C21.  getPermissions resolves with the role of the stored session, and  *)
(* getIdentity with its username as id and its display name, or the        *)
(* username where no display name is stored; both reject when there is no  *)
(* record or the record does not parse.  (Every step that changes the      *)
(* storage is a call that completes, so the storage a query read is the    *)
(* storage of the state in which it is the last call.)                     *)
(***************************************************************************)
DisplayName(item) ==
    IF StoredField(item, "fullName") THEN item.obj["fullName"] ELSE Get(item.obj, "username")

C21_QueriesProjectSession ==
    /\ last.op = "getPermissions" =>
          IF auth.kind = "json"
          THEN last.outcome = "resolve" /\ last.value.role = Get(auth.obj, "role")
          ELSE last.outcome = "reject"
    /\ last.op = "getIdentity" =>
          IF auth.kind = "json"
          THEN /\ last.outcome = "resolve"
               /\ last.value.id = Get(auth.obj, "username")
               /\ last.value.fullName = DisplayName(auth)
          ELSE last.outcome = "reject"

\* getIdentity answered for a session without a display name.
C21_Witness ==
    /\ last.op = "getIdentity"
    /\ last.outcome = "resolve"
    /\ auth.kind = "json"
    /\ ~StoredField(auth, "fullName")
    /\ last.value.fullName = auth.obj["username"]

(***************************************************************************)
(* C22.  The stored record changes only by the listed transitions: a step  *)
(* that writes a record is a login that resolved; a step that removes it   *)
(* is a logout, a checkAuth that rejected or a checkError of 401 or 403.   *)
(* getPermissions, getIdentity, a checkAuth that resolved, a checkError of *)
(* another status and every Gateway operation leave it as it was.          *)
(***************************************************************************)
AuthStatus(status) == status.has /\ status.code \in {401, 403}

C22_OnlyListedTransitions ==
    [][auth' # auth =>
          IF auth' # NoItem
          THEN last'.op = "login" /\ last'.outcome = "resolve"
          ELSE \/ last'.op = "logout"
               \/ last'.op = "checkAuth" /\ last'.outcome = "reject"
               \/ last'.op = "checkError" /\ AuthStatus(last'.args.status)]_vars

\* getPermissions rejected on a text that does not parse, and the text is
\* still stored.
C22_Witness ==
    /\ last.op = "getPermissions"
    /\ last.outcome = "reject"
    /\ auth = NotJSON

(***************************************************************************)
(* C23.  While the permissions the screens hold are not `admin` (the role  *)
(* user or viewer, or nothing loaded yet), user management is read-only:   *)
(* no create, update or delete on `users` is started from the list, the    *)
(* create screen or the edit screen.  The bulk delete of the list is there *)
(* for everybody, so the code does not keep this; it is stated here for    *)
(* the loaded roles user and viewer, which is the part of the claim a      *)
(* signed-in user meets.                                                   *)
(***************************************************************************)
UsersMutationStarted ==
    /\ RequestBuilt
    /\ request'.resource = "users"
    /\ request'.op \in {"create", "update", "delete", "deleteMany"}

C23_NonAdminReadOnly ==
    [][(permissions \in {"user", "viewer"}) => ~UsersMutationStarted]_vars

(***************************************************************************)
(* C24.  A login that resolves writes one whole record: under every        *)
(* interleaving of login, logout, checkAuth and checkError calls, each     *)
(* field of the record stored afterwards is the one this login supplies,   *)
(* and a field it does not supply is absent, whatever the record before    *)
(* held.  No field survives from the earlier session.                      *)
(***************************************************************************)
LoginWrites == LoginCompletes /\ last'.op = "login" /\ last'.outcome = "resolve"

SessionFields == {"username", "fullName", "email", "role", "token", "loginTime"}

\* The value a login with these credentials and this answer at time t has for
\* field f of the record, UNDEF when it has none.
Supplied(cred, resp, t, f) ==
    IF RemoteAccepted(resp)
    THEN CASE f = "username"  -> Get(resp.body.user, "username")
           [] f = "fullName"  -> Get(resp.body.user, "full_name")
           [] f = "email"     -> Get(resp.body.user, "email")
           [] f = "role"      -> Get(resp.body.user, "role")
           [] f = "token"     -> resp.body.access_token
           [] f = "loginTime" -> ToISOString(t)
           [] OTHER           -> UNDEF
    ELSE CASE f = "username"  -> cred.username
           [] f = "fullName"  -> StaticFind(cred.username, cred.password).fullName
           [] f = "role"      -> RecordedRole(cred, resp)
           [] f = "token"     -> "static-jwt-token-" \o ToString(t)
           [] f = "loginTime" -> ToISOString(t)
           [] OTHER           -> UNDEF

C24_WholeRecordWrites ==
    [][LoginWrites =>
          /\ auth'.kind = "json"
          /\ \A f \in SessionFields \cup DOMAIN auth'.obj \cup DOMAIN auth.obj :
                Get(auth'.obj, f) = Supplied(last'.args.cred, last'.args.resp, now, f)]_vars

\* The fallback admitted a user while another login is still in flight; the
\* record it wrote has no email.
C24_Witness ==
    /\ last.op = "login"
    /\ last.outcome = "resolve"
    /\ lastTransition = "login"
    /\ ~RemoteAccepted(last.args.resp)
    /\ auth.kind = "json"
    /\ "email" \notin DOMAIN auth.obj
    /\ InFlight > 0

(***************************************************************************)
(* C25.  A logout that runs while a login's remote request is in flight is *)
(* final: when a login that was already in flight at the logout completes, *)
(* it does not create a session.                                           *)
(***************************************************************************)
\* logout was the last call to complete and no login has started since, so
\* every login in flight was started before it.
LogoutThenNothing == last.op = "logout" /\ logins = last.args.inFlight

C25_LogoutIsFinal ==
    [][(LogoutThenNothing /\ LoginCompletes) => auth' = NoItem]_vars

(***************************************************************************)
(* C26.  checkError with status 401 or 403 removes whatever session record *)
(* is current when it runs: when the error of a Gateway call is handed to  *)
(* it, the stored session is removed also when it is not the session the   *)
(* request was sent under, a login having completed in between.            *)
(***************************************************************************)
GatewayAuthErrorHandled ==
    /\ last.op \in GatewayOps
    /\ last.outcome = "reject"
    /\ AuthStatus(last.value.status)
    /\ last'.op = "checkError"
    /\ last'.args.cause # NoArgs

C26_RemovesCurrentSession ==
    [][GatewayAuthErrorHandled =>
          /\ auth' = NoItem
          /\ last'.outcome = "reject"
          /\ last'.value.message = "Authentication required"]_vars

\* A request sent with no session or under another one was answered 401 or
\* 403 after a login had stored a session, and checkError removed that session.
C26_Witness ==
    /\ last.op = "checkError"
    /\ AuthStatus(last.args.status)
    /\ last.args.cause # NoArgs
    /\ last.args.cause.session # UNDEF
    /\ last.args.cause.session # last.args.cause.authorization
    /\ lastTransition = "checkError"
    /\ auth = NoItem

(***************************************************************************)
(* C27.  A login that is rejected, for whatever reason, leaves the stored  *)
(* item exactly as it was: a session that existed is still there and       *)
(* checkAuth answers on it as it did before the attempt.                   *)
(***************************************************************************)
LoginRejected == LoginCompletes /\ last'.op = "login" /\ last'.outcome = "reject"

C27_RejectedLoginKeepsSession ==
    [][LoginRejected =>
          /\ auth' = auth
          /\ lastTransition' = lastTransition
          /\ CheckAuthResult(auth') = CheckAuthResult(auth)
          /\ (CheckAuthResult(auth).outcome = "resolve" =>
                 /\ ~CheckAuthRemoves(auth')
                 /\ CheckAuthResult(auth').outcome = "resolve")]_vars

\* A login was rejected after the network failed, while the session an earlier
\* login had stored is still there and checkAuth resolves on it.
C27_Witness ==
    /\ last.op = "login"
    /\ last.outcome = "reject"
    /\ ~last.args.resp.reachable
    /\ lastTransition = "login"
    /\ auth.kind = "json"
    /\ CheckAuthResult(auth).outcome = "resolve"

(***************************************************************************)
(* C28.  A failure of a Gateway operation reaches the caller rewritten,    *)
(* its status gone, only for the resource `users` and a status the         *)
(* operation lists (create: 401, 403, 409, 422, 500; update: 401, 403,     *)
(* 404, 409; delete: 400, 401, 403; getList and getOne: 401, 403).  In     *)
(* every other case the caller receives the very error of the REST client, *)
(* and when the API answered with an error status that status is still on  *)
(* it as a number.                                                         *)
(***************************************************************************)
Listed == /\ last.args.resource = "users"
          /\ last.args.resp.reachable
          /\ last.args.resp.code \in ListedStatuses(last.op)

C28_StatusIntactUnlessListed ==
    GatewayFailed =>
        /\ Listed => /\ last.value.status = NoStatus
                     /\ last.value.message # RawError.message
        /\ ~Listed => /\ last.value = RawError
                      /\ (last.args.resp.reachable /\ last.args.resp.code >= 400) =>
                             last.value.status = HttpStatus(last.args.resp.code)

\* A delete of a user was answered 404, which delete does not list: the
\* caller holds the error of the REST client with status 404.
C28_Witness ==
    /\ Answered({"delete"}, "users", 404)
    /\ last.outcome = "reject"
    /\ last.value.status = HttpStatus(404)
    /\ last.value.message = "HTTP 404"

(***************************************************************************)
(* C29.  In each dashboard widget an answer that arrives after the widget  *)
(* was unmounted changes none of data, error and loading; an answer that   *)
(* arrives while it is mounted leaves loading false and either the data of *)
(* the answer with no error, or the error message with the data unset.     *)
(***************************************************************************)
Shown(w) == <<widgets[w].data, widgets[w].error, widgets[w].loading>>

LateAnswer(w) == widgets'[w].dead < widgets[w].dead

AnswerWhileMounted(w) == widgets'[w].live < widgets[w].live /\ widgets'[w].mounted

C29_UnmountedWidgetUntouched ==
    [][\A w \in Widgets :
          /\ LateAnswer(w) => Shown(w)' = Shown(w)
          /\ AnswerWhileMounted(w) =>
                /\ widgets'[w].loading = FALSE
                /\ IF FetchJson(widgets'[w].done.resp).outcome = "resolve"
                   THEN /\ widgets'[w].data = widgets'[w].done.resp.data
                        /\ widgets'[w].error = NULL
                   ELSE /\ widgets'[w].error # NULL
                        /\ widgets'[w].data = InitialData(w)]_vars

\* A widget was unmounted with its fetch in flight; the fetch has since been
\* answered with data and the widget still shows its state of before.
C29_Witness ==
    \E w \in Widgets :
        /\ ~widgets[w].mounted
        /\ widgets[w].done.answered
        /\ ~widgets[w].done.live
        /\ FetchJson(widgets[w].done.resp).outcome = "resolve"
        /\ widgets[w].done.resp.data # <<>>
        /\ widgets[w].loading
        /\ widgets[w].data = InitialData(w)

(***************************************************************************)
(* C30.  In the race detail view, once no details request is in flight,    *)
(* the details displayed are those of the race id of the route: an answer  *)
(* for an earlier id does not overwrite the state of the newer id.         *)
(***************************************************************************)
RaceIdle == race.id # UNDEF /\ \A i \in RaceIds : race.pending[i] = 0

C30_LatestIdDisplayed ==
    (RaceIdle /\ race.error = NULL) =>
        /\ ~race.loading
        /\ race.raceInfo = RaceDetails(race.id)

====
